---- MODULE Spec2Model ----
(***************************************************************************)
(* Model of spixels-pixel-push.cc: the output-device adapters that sit     *)
(* between the PixelPusher protocol server and the spixels strip drivers.  *)
(*                                                                         *)
(* Both adapter classes of the file (APA102SpixelsDevice and               *)
(* LPD6803SpixelsDevice) are driven side by side by the same calls; dev[v] *)
(* is the state behind the adapter of variant v: the brightness scale and  *)
(* the pixel buffer of every strip driver, and the frames its bus          *)
(* controller has transmitted.                                             *)
(*                                                                         *)
(* A brightness scale is the float n / 65536.0f with n in 1..65536; every  *)
(* such quotient is exact in binary32, so it is kept as the pair           *)
(* <<n, 65536>>.  <<>> is the scale of a driver that was never given one.  *)
(***************************************************************************)
EXTENDS Integers, Sequences, FiniteSets, TLC

VARIABLES pc, num_strips, strip_len, charSigned, arr, spi, strips, dev,
          last, reads, diag

vars == <<pc, num_strips, strip_len, charSigned, arr, spi, strips, dev,
          last, reads, diag>>

(* ------------------------------ bounds ------------------------------ *)
MaxStrips == 2     \* -S <strips> ranges over 1..MaxStrips
MaxLen    == 1     \* -L <len> ranges over 1..MaxLen
MaxFlush  == 1     \* frames kept in the transmit log
WideStrips == 129  \* a strip count above 128, for index bytes with the top bit set

(* ------------------------- program constants ------------------------ *)
PPPusherCommandGlobalBrightness == 1
PPPusherCommandStripBrightness  == 2
Two16 == 65536         \* 2^16: a uint32_t is kept as <<high half, low half>>
FloatDenominator == 65536

Variants == {"APA102", "LPD6803"}

(* ------------------------------ inputs ------------------------------ *)
PixelColor(r, g, b) == [red |-> r, green |-> g, blue |-> b]
Colors == {PixelColor(1, 2, 3), PixelColor(255, 0, 128)}
Black  == <<0, 0, 0>>

\* strip and pixel arguments of SetPixel (uint32_t)
StripInputs == {<<0, 0>>, <<0, num_strips - 1>>, <<0, num_strips>>, <<65535, 65535>>}
PixelInputs == {0, strip_len}

\* a few SetPixel arguments, where the commands are what is explored
FewStrips == {<<0, 0>>, <<0, num_strips>>}
FewPixels == {0}
FewColors == {PixelColor(1, 2, 3)}

\* bytes of a command buffer: tags, strip indices and 16-bit values as
\* <<byte at the lower offset, byte at the higher offset>>
TagBytes   == {0, PPPusherCommandGlobalBrightness,
               PPPusherCommandStripBrightness, 128, 255}
IndexBytes == {0, num_strips - 1, num_strips, 128, 255}
ValuePairs == {<<0, 0>>, <<255, 0>>, <<255, 255>>}
JunkBytes  == {0, 255}     \* what a read past the end of a buffer may yield

Buffers ==
    {<<>>}
    \cup {<<t>> : t \in TagBytes}
    \cup {<<t, 255>> : t \in {PPPusherCommandGlobalBrightness,
                              PPPusherCommandStripBrightness}}
    \cup {<<PPPusherCommandGlobalBrightness, v[1], v[2]>> : v \in ValuePairs}
    \cup {<<PPPusherCommandStripBrightness, 0, 255>>, <<255, 0, 0>>}
    \cup {<<PPPusherCommandGlobalBrightness, 0, 255, 7>>, <<128, 0, 0, 0>>}
    \cup {<<PPPusherCommandStripBrightness, k, v[1], v[2]>> :
              k \in IndexBytes, v \in ValuePairs}

\* a few command buffers, where the pixels are what is explored
FewBuffers ==
    {<<>>, <<128>>,
     <<PPPusherCommandGlobalBrightness, 255, 255>>,
     <<PPPusherCommandStripBrightness, 0, 255, 0>>,
     <<PPPusherCommandStripBrightness, num_strips % 256, 0, 0>>}

\* command buffers for an adapter of more than 128 strips
WideBuffers ==
    {<<128>>, <<PPPusherCommandGlobalBrightness, 255, 255>>}
    \cup {<<PPPusherCommandStripBrightness, k, 255, 0>> : k \in {0, 128, 255}}

NoCall == [op |-> "none", buf |-> <<>>, strip |-> <<0, 0>>, pixel |-> 0,
           col |-> PixelColor(0, 0, 0)]

(* ----------------------- C++ value conversions ---------------------- *)
\* buf[i] of a const char *: plain char is signed or unsigned by the build
CharValue(b) == IF charSigned /\ b >= 128 THEN b - 256 ELSE b

\* conversion of an int to uint32_t (modulo 2^32), as <<high half, low half>>
ToU32(x) == <<(x \div Two16) % Two16, x % Two16>>

\* a < b on uint32_t
U32Less(a, b) == a[1] < b[1] \/ (a[1] = b[1] /\ a[2] < b[2])

\* a uint32_t below 2^31 as a number
U32Value(u) == u[1] * Two16 + u[2]

\* the byte at buf + i; junk stands for memory past the buffer
Byte(buf, i, junk) == IF i < Len(buf) THEN buf[i + 1] ELSE junk

\* *(uint16_t*)(buf + off) on the little-endian target of the spixels library
ReadU16(buf, off, junk) == Byte(buf, off, junk) + 256 * Byte(buf, off + 1, junk)

\* the sum taken in 16 bits: 0xFFFF + 1 wraps to 0
BrightnessScale16_Wrap16(buf, off, junk) ==
    <<0, (ReadU16(buf, off, junk) + 1) % Two16>>

\* (uint32_t)*(uint16_t*)(buf + off) + 1
BrightnessScale16(buf, off, junk) == ToU32(ReadU16(buf, off, junk) + 1)

\* brightnessScale16 / 65536.0f
Float(n) == <<U32Value(n), FloatDenominator>>

(* ----------------------- spixels collaborators ---------------------- *)
\* LEDStrip::SetPixel8: buffers an 8-bit colour at a pixel the strip has
SetPixel8(buffer, pixel, r, g, b) ==
    IF pixel < strip_len THEN [buffer EXCEPT ![pixel] = <<r, g, b>>] ELSE buffer

\* strips_[strip]->SetBrightnessScale(f): the scale of the driver addressed
SetBrightnessScale(scale, strip, f) ==
    [s \in DOMAIN scale \cup {strip} |-> IF s = strip THEN f ELSE scale[s]]

\* MultiSPI::SendBuffers: one transmission of the buffers of all lanes
SendBuffers(sent, pixels) == Append(sent, pixels)

\* a strip driver as the factory returns it: no scale given, buffer cleared
NewStrip(d, strip) ==
    [scale  |-> [s \in DOMAIN d.scale \cup {strip} |->
                    IF s = strip THEN <<>> ELSE d.scale[s]],
     pixels |-> [s \in DOMAIN d.pixels \cup {strip} |->
                    IF s = strip THEN [p \in 0 .. strip_len - 1 |-> Black]
                                 ELSE d.pixels[s]],
     sent   |-> d.sent]

(* --------------------------- the adapters --------------------------- *)
\* a payload one byte short let through
SizeOkGlobal_Short(size) == size >= 2

\* size >= 3
SizeOkGlobal(size) == size >= 3

\* size >= 4
SizeOkStrip(size) == size >= 4

\* uint32_t const strip = buf[1]
StripIndex(buf, junk) == ToU32(CharValue(Byte(buf, 1, junk)))

\* the range check off by one
StripInRange_Inclusive(strip) ==
    U32Less(strip, ToU32(num_strips)) \/ strip = ToU32(num_strips)

\* strip < (uint32_t)num_strips_
StripInRange(strip) == U32Less(strip, ToU32(num_strips))

\* the loop started at strip 1
GlobalTargets_FromOne == 1 .. num_strips - 1

\* for (int strip = 0; strip < num_strips_; strip++)
GlobalTargets == 0 .. num_strips - 1

\* fprintf(stderr, "...%u\n", buf[0]): the promoted char read as unsigned
Diagnostic(tag) == <<ToU32(tag)>>

\* APA102SpixelsDevice::HandlePusherCommand: the scales after the call, the
\* buffer offsets it read and what it printed
APA102_HandlePusherCommand(scale, buf, junk) ==
    LET size == Len(buf)
        tag  == CharValue(Byte(buf, 0, junk))
        none == [scale |-> scale, reads |-> {}, diag |-> <<>>]
    IN  IF size >= 1
        THEN IF tag = PPPusherCommandGlobalBrightness
             THEN IF SizeOkGlobal(size)
                  THEN [scale |-> [s \in DOMAIN scale |->
                                     IF s \in GlobalTargets
                                     THEN Float(BrightnessScale16(buf, 1, junk))
                                     ELSE scale[s]],
                        reads |-> {0, 1, 2}, diag |-> <<>>]
                  ELSE [none EXCEPT !.reads = {0}]
             ELSE IF tag = PPPusherCommandStripBrightness
             THEN IF SizeOkStrip(size)
                  THEN IF StripInRange(StripIndex(buf, junk))
                       THEN [scale |-> SetBrightnessScale(scale,
                                          U32Value(StripIndex(buf, junk)),
                                          Float(BrightnessScale16(buf, 2, junk))),
                             reads |-> {0, 1, 2, 3}, diag |-> <<>>]
                       ELSE [none EXCEPT !.reads = {0, 1}]
                  ELSE [none EXCEPT !.reads = {0}]
             ELSE [none EXCEPT !.reads = {0}, !.diag = Diagnostic(tag)]
        ELSE none

\* LPD6803SpixelsDevice declares no HandlePusherCommand: the call reaches the
\* one it inherits from pp::OutputDevice, which does nothing
LPD6803_HandlePusherCommand(scale, buf, junk) ==
    [scale |-> scale, reads |-> {}, diag |-> <<>>]

\* the colour channels forwarded in the order blue, green, red
APA102_SetPixel_SwapRB(pixels, strip, pixel, col) ==
    IF StripInRange(strip)
    THEN [pixels EXCEPT ![U32Value(strip)] =
             SetPixel8(@, pixel, col.blue, col.green, col.red)]
    ELSE pixels

\* APA102SpixelsDevice::SetPixel
APA102_SetPixel(pixels, strip, pixel, col) ==
    IF StripInRange(strip)
    THEN [pixels EXCEPT ![U32Value(strip)] =
             SetPixel8(@, pixel, col.red, col.green, col.blue)]
    ELSE pixels

\* LPD6803SpixelsDevice::SetPixel
LPD6803_SetPixel(pixels, strip, pixel, col) ==
    IF StripInRange(strip)
    THEN [pixels EXCEPT ![U32Value(strip)] =
             SetPixel8(@, pixel, col.red, col.green, col.blue)]
    ELSE pixels

\* APA102SpixelsDevice::FlushFrame
APA102_FlushFrame(d) == [d EXCEPT !.sent = SendBuffers(@, d.pixels)]

\* LPD6803SpixelsDevice::FlushFrame
LPD6803_FlushFrame(d) == [d EXCEPT !.sent = SendBuffers(@, d.pixels)]

HandleOf(v, scale, buf, junk) ==
    IF v = "APA102" THEN APA102_HandlePusherCommand(scale, buf, junk)
                    ELSE LPD6803_HandlePusherCommand(scale, buf, junk)

SetPixelOf(v, pixels, strip, pixel, col) ==
    IF v = "APA102" THEN APA102_SetPixel(pixels, strip, pixel, col)
                    ELSE LPD6803_SetPixel(pixels, strip, pixel, col)

FlushOf(v, d) ==
    IF v = "APA102" THEN APA102_FlushFrame(d) ELSE LPD6803_FlushFrame(d)

(* ------------------------------- main ------------------------------- *)
Init ==
    /\ pc = "new_array"
    /\ num_strips \in 1 .. MaxStrips
    /\ strip_len \in 1 .. MaxLen
    /\ charSigned \in BOOLEAN
    /\ arr = FALSE
    /\ spi = FALSE
    /\ strips = {}
    /\ dev = [v \in Variants |-> [scale |-> <<>>, pixels |-> <<>>, sent |-> <<>>]]
    /\ last = NoCall
    /\ reads = {}
    /\ diag = <<>>

\* strips_(new spixels::LEDStrip* [ num_strips_ ])
NewArray ==
    /\ pc = "new_array"
    /\ arr' = TRUE
    /\ pc' = "create_spi"
    /\ UNCHANGED <<num_strips, strip_len, charSigned, spi, strips, dev,
                   last, reads, diag>>

\* the failed array allocation goes unnoticed and construction carries on
NewArrayFail_Caught ==
    /\ pc = "new_array"
    /\ pc' = "create_spi"
    /\ UNCHANGED <<num_strips, strip_len, charSigned, arr, spi, strips, dev,
                   last, reads, diag>>

\* the array allocation throws; main has no handler and the process ends
NewArrayFail ==
    /\ pc = "new_array"
    /\ pc' = "aborted"
    /\ UNCHANGED <<num_strips, strip_len, charSigned, arr, spi, strips, dev,
                   last, reads, diag>>

\* spi_(spixels::CreateDirectMultiSPI(clock))
CreateSPI ==
    /\ pc = "create_spi"
    /\ spi' = TRUE
    /\ pc' = "create_strips"
    /\ UNCHANGED <<num_strips, strip_len, charSigned, arr, strips, dev,
                   last, reads, diag>>

\* the bus controller cannot be allocated
CreateSPIFail ==
    /\ pc = "create_spi"
    /\ pc' = "aborted"
    /\ UNCHANGED <<num_strips, strip_len, charSigned, arr, spi, strips, dev,
                   last, reads, diag>>

\* one round of the constructor's loop: strips_[strip] = Create...Strip(...)
CreateStrip ==
    /\ pc = "create_strips"
    /\ Cardinality(strips) < num_strips
    /\ LET strip == Cardinality(strips)
       IN  /\ strips' = strips \cup {strip}
           /\ dev' = [v \in Variants |-> NewStrip(dev[v], strip)]
    /\ UNCHANGED <<pc, num_strips, strip_len, charSigned, arr, spi,
                   last, reads, diag>>

\* a strip driver cannot be allocated
CreateStripFail ==
    /\ pc = "create_strips"
    /\ Cardinality(strips) < num_strips
    /\ pc' = "aborted"
    /\ UNCHANGED <<num_strips, strip_len, charSigned, arr, spi, strips, dev,
                   last, reads, diag>>

\* the loop ends and the constructor returns
Constructed ==
    /\ pc = "create_strips"
    /\ ~(Cardinality(strips) < num_strips)
    /\ pc' = "start_server"
    /\ UNCHANGED <<num_strips, strip_len, charSigned, arr, spi, strips, dev,
                   last, reads, diag>>

\* pp::StartPixelPusherServer(pp_options, &pixel_strips) returns true
StartServer ==
    /\ pc = "start_server"
    /\ pc' = "operating"
    /\ UNCHANGED <<num_strips, strip_len, charSigned, arr, spi, strips, dev,
                   last, reads, diag>>

\* pp::StartPixelPusherServer returns false: return 1
StartServerFail ==
    /\ pc = "start_server"
    /\ pc' = "exited"
    /\ UNCHANGED <<num_strips, strip_len, charSigned, arr, spi, strips, dev,
                   last, reads, diag>>

(* ----------------- calls made by the protocol server ----------------- *)
\* one HandlePusherCommand(buf, size) call with its buffer drawn from bufs
HandlePusherCommandOn(bufs) ==
    /\ pc = "operating"
    /\ \E buf \in bufs, junk \in JunkBytes :
          /\ dev' = [v \in Variants |->
                       [dev[v] EXCEPT !.scale =
                            HandleOf(v, dev[v].scale, buf, junk).scale]]
          /\ reads' = APA102_HandlePusherCommand(dev["APA102"].scale, buf, junk).reads
          /\ diag' = APA102_HandlePusherCommand(dev["APA102"].scale, buf, junk).diag
          /\ last' = [NoCall EXCEPT !.op = "HandlePusherCommand", !.buf = buf]
    /\ UNCHANGED <<pc, num_strips, strip_len, charSigned, arr, spi, strips>>

\* a SetPixel that also transmits at once
SetPixelOn_Flushes(stripset, pixelset, colset) ==
    /\ pc = "operating"
    /\ \E strip \in stripset, pixel \in pixelset, col \in colset :
          /\ dev' = [v \in Variants |->
                       FlushOf(v, [dev[v] EXCEPT !.pixels =
                            SetPixelOf(v, dev[v].pixels, strip, pixel, col)])]
          /\ last' = [NoCall EXCEPT !.op = "SetPixel", !.strip = strip,
                                    !.pixel = pixel, !.col = col]
    /\ reads' = {}
    /\ diag' = <<>>
    /\ UNCHANGED <<pc, num_strips, strip_len, charSigned, arr, spi, strips>>

\* one SetPixel(strip, pixel, col) call with its arguments drawn from the sets
SetPixelOn(stripset, pixelset, colset) ==
    /\ pc = "operating"
    /\ \E strip \in stripset, pixel \in pixelset, col \in colset :
          /\ dev' = [v \in Variants |->
                       [dev[v] EXCEPT !.pixels =
                            SetPixelOf(v, dev[v].pixels, strip, pixel, col)]]
          /\ last' = [NoCall EXCEPT !.op = "SetPixel", !.strip = strip,
                                    !.pixel = pixel, !.col = col]
    /\ reads' = {}
    /\ diag' = <<>>
    /\ UNCHANGED <<pc, num_strips, strip_len, charSigned, arr, spi, strips>>

HandlePusherCommand == HandlePusherCommandOn(Buffers)

HandlePusherCommandFew == HandlePusherCommandOn(FewBuffers)

HandlePusherCommandWide == HandlePusherCommandOn(WideBuffers)

SetPixel == SetPixelOn(StripInputs, PixelInputs, Colors)

SetPixelFew == SetPixelOn(FewStrips, FewPixels, FewColors)

FlushFrame ==
    /\ pc = "operating"
    /\ Len(dev["APA102"].sent) < MaxFlush
    /\ dev' = [v \in Variants |-> FlushOf(v, dev[v])]
    /\ last' = [NoCall EXCEPT !.op = "FlushFrame"]
    /\ reads' = {}
    /\ diag' = <<>>
    /\ UNCHANGED <<pc, num_strips, strip_len, charSigned, arr, spi, strips>>

\* main up to the point where the protocol server calls the adapter
Startup ==
    \/ NewArray
    \/ NewArrayFail
    \/ CreateSPI
    \/ CreateSPIFail
    \/ CreateStrip
    \/ CreateStripFail
    \/ Constructed
    \/ StartServer
    \/ StartServerFail

\* every command buffer, a few pixel writes
Next == Startup \/ HandlePusherCommand \/ SetPixelFew \/ FlushFrame

Spec == Init /\ [][Next]_vars

\* every pixel write, a few command buffers
NextPixels == Startup \/ HandlePusherCommandFew \/ SetPixel \/ FlushFrame

SpecPixels == Init /\ [][NextPixels]_vars

\* the same program started with -S WideStrips
InitWide ==
    /\ pc = "new_array"
    /\ num_strips = WideStrips
    /\ strip_len \in 1 .. MaxLen
    /\ charSigned \in BOOLEAN
    /\ arr = FALSE
    /\ spi = FALSE
    /\ strips = {}
    /\ dev = [v \in Variants |-> [scale |-> <<>>, pixels |-> <<>>, sent |-> <<>>]]
    /\ last = NoCall
    /\ reads = {}
    /\ diag = <<>>

NextWide == Startup \/ HandlePusherCommandWide \/ SetPixelFew \/ FlushFrame

SpecWide == InitWide /\ [][NextWide]_vars

(* ---------------------- vocabulary of the claims --------------------- *)
apa == dev["APA102"]

AllStrips == 0 .. num_strips - 1

\* the 16-bit value whose low byte is lo and whose high byte is hi
LE16(lo, hi) == lo + 256 * hi

\* the scale (v + 1) / 65536
ScaleFor(v) == <<v + 1, 65536>>

IsCommand(c) == c.op = "HandlePusherCommand"

IsGlobalCmd(c) ==
    IsCommand(c) /\ Len(c.buf) >= 3 /\ c.buf[1] = PPPusherCommandGlobalBrightness

IsStripCmd(c) ==
    IsCommand(c) /\ Len(c.buf) >= 4 /\ c.buf[1] = PPPusherCommandStripBrightness

TooSmall(c) ==
    /\ IsCommand(c)
    /\ \/ Len(c.buf) = 0
       \/ Len(c.buf) < 3 /\ c.buf[1] = PPPusherCommandGlobalBrightness
       \/ Len(c.buf) < 4 /\ c.buf[1] = PPPusherCommandStripBrightness

UnknownTag(c) ==
    /\ IsCommand(c)
    /\ Len(c.buf) >= 1
    /\ c.buf[1] \notin {PPPusherCommandGlobalBrightness,
                        PPPusherCommandStripBrightness}

ValidSetPixel(c) == c.op = "SetPixel" /\ c.strip[1] = 0 /\ c.strip[2] < num_strips

OutOfRange(c) ==
    \/ IsStripCmd(c) /\ c.buf[2] >= num_strips
    \/ c.op = "SetPixel" /\ ~(c.strip[1] = 0 /\ c.strip[2] < num_strips)

ColorOf(c) == <<c.col.red, c.col.green, c.col.blue>>

\* some strip has a scale, some pixel a colour and a frame went out
Busy ==
    /\ \E s \in DOMAIN apa.scale : apa.scale[s] # <<>>
    /\ \E s \in DOMAIN apa.pixels : apa.pixels[s][0] # Black
    /\ apa.sent # <<>>

(* ------------------------------- claims ------------------------------ *)
\* C1: after a GlobalBrightness command of size >= 3 whose bytes 1-2 hold v
\* little-endian, every strip 0..num_strips-1 has the scale (v+1)/65536.
C1_GlobalBrightnessSetsEveryStrip ==
    IsGlobalCmd(last) =>
        \A s \in AllStrips :
            apa.scale[s] = ScaleFor(LE16(last.buf[2], last.buf[3]))

C1_Witness ==
    /\ IsGlobalCmd(last)
    /\ num_strips = 2
    /\ last.buf[2] = 255 /\ last.buf[3] = 0
    /\ apa.scale[0] = <<256, 65536>>
    /\ apa.scale[1] = <<256, 65536>>

\* C2: a StripBrightness command of size >= 4 whose index byte k (0..255,
\* unsigned) is below num_strips sets the scale of strip k to (v+1)/65536 and
\* leaves the scale of every other strip as it was.
C2_StripBrightnessSetsStripK ==
    /\ [](IsStripCmd(last) /\ last.buf[2] < num_strips =>
              apa.scale[last.buf[2]] = ScaleFor(LE16(last.buf[3], last.buf[4])))
    /\ [][IsStripCmd(last') /\ last'.buf[2] < num_strips =>
              \A s \in AllStrips \ {last'.buf[2]} :
                  apa'.scale[s] = apa.scale[s]]_vars

\* C3: a StripBrightness command (size >= 4) or a SetPixel call that addresses
\* a strip >= num_strips changes no scale, no buffered pixel, transmits
\* nothing, reports nothing and leaves the adapter operating.
C3_OutOfRangeStripIgnored ==
    [][OutOfRange(last') =>
          /\ apa' = apa
          /\ diag' = <<>>
          /\ pc' = "operating"]_vars

C3_Witness ==
    /\ IsStripCmd(last)
    /\ OutOfRange(last)
    /\ last.buf[2] = num_strips
    /\ Busy

\* C4: a command whose size is too small for its tag (0 for any buffer, < 3
\* for GlobalBrightness, < 4 for StripBrightness) changes no scale and no
\* buffered pixel, and reads no byte at an offset >= size.
C4_ShortCommandIgnored ==
    /\ [](TooSmall(last) => reads \subseteq 0 .. Len(last.buf) - 1)
    /\ [][TooSmall(last') => apa' = apa]_vars

C4_Witness ==
    /\ TooSmall(last)
    /\ last.buf = <<PPPusherCommandGlobalBrightness, 255>>
    /\ reads = {0}
    /\ Busy

\* C5: frames reach the bus controller's transmit call only at a FlushFrame;
\* a FlushFrame transmits the pixels buffered by the SetPixel calls before it,
\* and a later SetPixel leaves what was transmitted as it is.
C5_OnlyFlushFrameTransmits ==
    [][/\ apa'.sent # apa.sent => last'.op = "FlushFrame"
       /\ last'.op = "FlushFrame" => apa'.sent = Append(apa.sent, apa.pixels)
       /\ last'.op = "SetPixel" => apa'.sent = apa.sent]_vars

C5_Witness ==
    /\ last.op = "SetPixel"
    /\ Len(apa.sent) >= 1
    /\ \E s \in AllStrips : apa.sent[1][s][0] # Black
    /\ apa.sent[Len(apa.sent)] # apa.pixels

\* C6: SetPixel(strip, pixel, color) with strip < num_strips leaves the
\* buffered colour of that pixel (a pixel the strip has, pixel < strip_len)
\* equal to (red, green, blue), changes no other buffered pixel, no scale,
\* and transmits nothing.
C6_SetPixelBuffersColor ==
    /\ [](ValidSetPixel(last) /\ last.pixel < strip_len =>
              apa.pixels[last.strip[2]][last.pixel] = ColorOf(last))
    /\ [][ValidSetPixel(last') =>
              /\ \A s \in AllStrips : \A p \in 0 .. strip_len - 1 :
                     (s # last'.strip[2] \/ p # last'.pixel) =>
                         apa'.pixels[s][p] = apa.pixels[s][p]
              /\ apa'.scale = apa.scale
              /\ apa'.sent = apa.sent]_vars

C6_Witness ==
    /\ ValidSetPixel(last)
    /\ num_strips = 2
    /\ last.strip = <<0, 1>> /\ last.pixel = 0
    /\ apa.pixels[1][0] = <<255, 0, 128>>
    /\ apa.pixels[0][0] = <<1, 2, 3>>
    /\ Busy

\* C7: a command of size >= 1 whose tag byte (0..255) is neither brightness
\* tag reports that tag's value and changes no scale and no buffered pixel.
C7_UnknownTagReported ==
    /\ [](UnknownTag(last) => diag = << <<0, last.buf[1]>> >>)
    /\ [][UnknownTag(last') => apa' = apa]_vars

\* C8: every scale a brightness command sets is (v+1)/65536 with v+1 in
\* 1..65536: v = 0 gives 1/65536, v = 65535 gives 65536/65536 = 1.0, and no
\* scale outside (0, 1] is set.
C8_ScaleNeverWraps ==
    /\ \A s \in DOMAIN apa.scale :
          apa.scale[s] # <<>> =>
              apa.scale[s][2] = 65536 /\ apa.scale[s][1] \in 1 .. 65536
    /\ IsGlobalCmd(last) =>
          LET v == LE16(last.buf[2], last.buf[3])
          IN  /\ v = 0 => \A s \in AllStrips : apa.scale[s] = <<1, 65536>>
              /\ v = 65535 => \A s \in AllStrips : apa.scale[s] = <<65536, 65536>>
    /\ IsStripCmd(last) /\ last.buf[2] < num_strips =>
          LET v == LE16(last.buf[3], last.buf[4])
          IN  /\ v = 0 => apa.scale[last.buf[2]] = <<1, 65536>>
              /\ v = 65535 => apa.scale[last.buf[2]] = <<65536, 65536>>

C8_Witness ==
    /\ IsStripCmd(last)
    /\ last.buf = <<PPPusherCommandStripBrightness, 0, 255, 255>>
    /\ apa.scale[0] = <<65536, 65536>>
    /\ \E s \in AllStrips : apa.scale[s] = <<1, 65536>>

\* C9: the APA102 and the LPD6803 adapter, built alike and given the same
\* calls, hold the same scales, the same buffered pixels and the same
\* transmitted frames.
C9_VariantsAgree == dev["APA102"] = dev["LPD6803"]

====
